---- MODULE Spec2Model ----
(***************************************************************************)
(* Model of the retrieval-fusion / rerank orchestrator of rag-aws-demo:    *)
(* RAGPipeline.run (src/src/rag/pipeline.py), AuroraPGVectorRetriever      *)
(* (src/src/rag/retriever.py), bedrock.invoke_rerank                       *)
(* (src/src/shared/bedrock.py) and the executor dispatch of query_rag      *)
(* (src/src/api/app.py).                                                   *)
(*                                                                         *)
(* Text is a sequence of one-character strings.  The tokens "<result>" and *)
(* "</result>" stand for the literal tags.  A metadata dict is a record    *)
(* [keys, source, chunk_id, rerank_score]: keys is the set of keys the     *)
(* dict holds, a field whose key is absent holds its filler value.         *)
(***************************************************************************)
EXTENDS Integers, Sequences, FiniteSets, TLC

(***************************************************************************)
(* Bounds of the model.                                                    *)
(***************************************************************************)
MaxPrimaryK == 1
MaxFinalK == 2
MaxVariantCount == 1
MaxResults == 2
MaxPool == 4
MaxCandidates == 2
MaxLines == 3
MaxTokens == 4

(***************************************************************************)
(* Program constants.                                                      *)
(***************************************************************************)
KeyPrefixLen == 100

(***************************************************************************)
(* Text helpers (Python str methods used by the code).                     *)
(***************************************************************************)
Whitespace == {" ", "\n", "\t"}

Min(a, b) == IF a <= b THEN a ELSE b

Max(a, b) == IF a >= b THEN a ELSE b

Take(s, n) == SubSeq(s, 1, Min(n, Len(s)))

RECURSIVE LStripChars(_, _)
LStripChars(t, cs) ==
    IF t # <<>> /\ Head(t) \in cs THEN LStripChars(Tail(t), cs) ELSE t

RECURSIVE RStripChars(_, _)
RStripChars(t, cs) ==
    IF t # <<>> /\ t[Len(t)] \in cs
    THEN RStripChars(SubSeq(t, 1, Len(t) - 1), cs)
    ELSE t

StripChars(t, cs) == RStripChars(LStripChars(t, cs), cs)

Strip(t) == StripChars(t, Whitespace)

LowerChar(c) ==
    CASE c = "V" -> "v"
      [] c = "Q" -> "q"
      [] c = "H" -> "h"
      [] OTHER -> c

Lower(t) == [i \in 1..Len(t) |-> LowerChar(t[i])]

RECURSIVE SplitLines(_)
SplitLines(t) ==
    IF t = <<>> THEN <<>>
    ELSE LET nl == {i \in 1..Len(t) : t[i] = "\n"}
         IN IF nl = {} THEN <<t>>
            ELSE LET i == CHOOSE j \in nl : \A k \in nl : j <= k
                 IN <<SubSeq(t, 1, i - 1)>> \o SplitLines(SubSeq(t, i + 1, Len(t)))

Digit(d) ==
    CASE d = 0 -> "0" [] d = 1 -> "1" [] d = 2 -> "2" [] d = 3 -> "3"
      [] d = 4 -> "4" [] d = 5 -> "5" [] d = 6 -> "6" [] d = 7 -> "7"
      [] d = 8 -> "8" [] d = 9 -> "9"

RECURSIVE IntStr(_)
IntStr(n) == IF n < 10 THEN <<Digit(n)>> ELSE IntStr(n \div 10) \o <<Digit(n % 10)>>

BoundedSeq(S, n) == UNION {[1..k -> S] : k \in 0..n}

(***************************************************************************)
(* Documents.                                                              *)
(***************************************************************************)
Metadata(keys, source, chunk_id) ==
    [keys |-> keys, source |-> source, chunk_id |-> chunk_id, rerank_score |-> 0]

Document(page_content, metadata) ==
    [page_content |-> page_content, metadata |-> metadata]

DocA == Document(<<"x">>, Metadata({"source", "chunk_id"}, <<"a">>, 1))
DocB == Document(<<"y">>, Metadata({"source", "chunk_id"}, <<"b">>, 1))
DocB2 == Document(<<"z">>, Metadata({"source", "chunk_id"}, <<"b">>, 1))
DocC == Document(<<"x">>, Metadata({"source", "chunk_id"}, <<"c">>, 2))

StoreDocs == {DocA, DocB}

DedupDocs == {DocA, DocB, DocB2, DocC}

\* A content longer than the key prefix: KeyPrefixLen times "w", then c.
LongText(c) == [i \in 1..(KeyPrefixLen + 1) |-> IF i <= KeyPrefixLen THEN "w" ELSE c]

\* Documents whose metadata lacks "chunk_id", "source" or both.
DocS1 == Document(<<"p">>, Metadata({"source"}, <<"s">>, 0))
DocS2 == Document(<<"r">>, Metadata({"source"}, <<"s">>, 0))
DocK == Document(<<"r">>, Metadata({"chunk_id"}, <<>>, 2))
DocN1 == Document(LongText("m"), Metadata({}, <<>>, 0))
DocN2 == Document(LongText("n"), Metadata({}, <<>>, 0))
DocN3 == Document(<<"p">>, Metadata({}, <<>>, 0))

\* Two documents whose (source, chunk_id) pairs differ and whose
\* concatenations source + str(chunk_id) are the same text.
DocD1 == Document(<<"x">>, Metadata({"source", "chunk_id"}, <<"a", "1">>, 1))
DocD2 == Document(<<"y">>, Metadata({"source", "chunk_id"}, <<"a">>, 11))

KeyDocs == {DocS1, DocS2, DocK, DocN1, DocN2, DocN3, DocD1, DocD2}

(***************************************************************************)
(* AuroraPGVectorRetriever._deduplicate                                    *)
(***************************************************************************)
DedupKey(doc) ==
    LET m == doc.metadata
        source == IF "source" \in m.keys THEN m.source ELSE <<>>
        chunk == IF "chunk_id" \in m.keys THEN IntStr(m.chunk_id) ELSE <<>>
        key == source \o chunk
    IN IF key # <<>> THEN key ELSE Take(doc.page_content, KeyPrefixLen)

RECURSIVE DedupLoop(_, _, _)
DedupLoop(rest, seen, ordered) ==
    IF rest = <<>> THEN ordered
    ELSE LET doc == Head(rest)
             key == DedupKey(doc)
         IN IF key \notin seen
            THEN DedupLoop(Tail(rest), seen \cup {key}, Append(ordered, doc))
            ELSE DedupLoop(Tail(rest), seen, ordered)

\* Mutant: the duplicate is removed from the list being iterated, so the
\* element after a removed one is skipped.
RECURSIVE DedupRemoveWhileIterating(_, _, _)
DedupRemoveWhileIterating(list, i, seen) ==
    IF i > Len(list) THEN list
    ELSE LET key == DedupKey(list[i])
         IN IF key \notin seen
            THEN DedupRemoveWhileIterating(list, i + 1, seen \cup {key})
            ELSE DedupRemoveWhileIterating(
                     SubSeq(list, 1, i - 1) \o SubSeq(list, i + 1, Len(list)),
                     i + 1, seen)

DeduplicateSkipping(docs_in) == DedupRemoveWhileIterating(docs_in, 1, {})

\* Mutant: the last candidate seen for a key replaces the first one.
RECURSIVE DedupLastWins(_, _)
DedupLastWins(rest, ordered) ==
    IF rest = <<>> THEN ordered
    ELSE LET doc == Head(rest)
             key == DedupKey(doc)
             hit == {i \in 1..Len(ordered) : DedupKey(ordered[i]) = key}
         IN IF hit = {}
            THEN DedupLastWins(Tail(rest), Append(ordered, doc))
            ELSE DedupLastWins(Tail(rest),
                     [i \in 1..Len(ordered) |-> IF i \in hit THEN doc ELSE ordered[i]])

DeduplicateLastWins(docs_in) == DedupLastWins(docs_in, <<>>)

Deduplicate(docs_in) == DedupLoop(docs_in, {}, <<>>)


(***************************************************************************)
(* Generation-backend responses: a response's content is either a plain    *)
(* text or a list of segments (retriever._to_plain_text, pipeline.run).    *)
(***************************************************************************)
TextContent(t) == [kind |-> "text", text |-> t, segments |-> <<>>]

SegmentContent(segs) == [kind |-> "segments", text |-> <<>>, segments |-> segs]

Reply(ok, content) == [ok |-> ok, content |-> content]

RECURSIVE Join(_, _)
Join(parts, sep) ==
    IF parts = <<>> THEN <<>>
    ELSE IF Len(parts) = 1 THEN parts[1]
    ELSE parts[1] \o sep \o Join(Tail(parts), sep)

ToPlainText(content) ==
    IF content.kind = "segments" THEN Join(content.segments, <<"\n">>)
    ELSE content.text

(***************************************************************************)
(* pipeline._cleanup_result_tag, _format_history, _rewrite_question        *)
(***************************************************************************)
CleanupResultTag(text) ==
    LET opens == {i \in 1..Len(text) :
                     /\ text[i] = "<result>"
                     /\ \E j \in (i + 1)..Len(text) : text[j] = "</result>"}
    IN IF opens = {} THEN Strip(text)
       ELSE LET i == CHOOSE a \in opens : \A b \in opens : a <= b
                closes == {j \in (i + 1)..Len(text) : text[j] = "</result>"}
                j == CHOOSE a \in closes : \A b \in closes : a <= b
            IN Strip(SubSeq(text, i + 1, j - 1))

UpperChar(c) ==
    CASE c = "u" -> "U"
      [] c = "a" -> "A"
      [] OTHER -> c

Capitalize(t) ==
    IF t = <<>> THEN <<>>
    ELSE <<UpperChar(t[1])>> \o Lower(Tail(t))

NoHistory == [is_none |-> TRUE, turns |-> <<>>]

HistoryOf(turns) == [is_none |-> FALSE, turns |-> turns]

FormatHistory(history) ==
    IF history.is_none \/ history.turns = <<>> THEN <<>>
    ELSE Join([i \in 1..Len(history.turns) |->
                   Capitalize(history.turns[i].role) \o <<":", " ">>
                       \o Strip(history.turns[i].content)],
              <<"\n">>)

\* Mutant: the rewrite call is issued whatever the history.
CallsRewriteAlways(history) == TRUE

\* _rewrite_question reaches the backend call only past both early returns.
CallsRewrite(history) ==
    /\ ~(history.is_none \/ history.turns = <<>>)
    /\ FormatHistory(history) # <<>>

\* Mutant: the except clause is missing, the backend error escapes.
RewriteQuestionUncaught(question, history, reply) ==
    IF ~CallsRewrite(history) THEN [raised |-> FALSE, value |-> question]
    ELSE IF ~reply.ok THEN [raised |-> TRUE, value |-> <<>>]
    ELSE LET rewritten == CleanupResultTag(reply.content.text)
         IN [raised |-> FALSE,
             value |-> IF rewritten # <<>> THEN rewritten ELSE question]

\* Mutant: an empty extracted text is returned as the rewritten question.
RewriteQuestionNoFallback(question, history, reply) ==
    IF ~CallsRewrite(history) THEN [raised |-> FALSE, value |-> question]
    ELSE IF ~reply.ok THEN [raised |-> FALSE, value |-> question]
    ELSE [raised |-> FALSE, value |-> CleanupResultTag(reply.content.text)]

\* invoke_text_generation returns a str; reply.content is its text.
RewriteQuestion(question, history, reply) ==
    IF ~CallsRewrite(history) THEN [raised |-> FALSE, value |-> question]
    ELSE IF ~reply.ok THEN [raised |-> FALSE, value |-> question]
    ELSE LET rewritten == CleanupResultTag(reply.content.text)
         IN [raised |-> FALSE,
             value |-> IF rewritten # <<>> THEN rewritten ELSE question]

(***************************************************************************)
(* retriever._generate_variant_queries, _generate_hypothetical_document    *)
(***************************************************************************)
RECURSIVE VariantLoop(_, _, _, _)
VariantLoop(lines, query, count, variants) ==
    IF lines = <<>> THEN variants
    ELSE LET stripped == Strip(StripChars(Head(lines), {"-", "*", " "}))
         IN IF stripped = <<>> THEN VariantLoop(Tail(lines), query, count, variants)
            ELSE IF Lower(stripped) = Lower(query)
                 THEN VariantLoop(Tail(lines), query, count, variants)
            ELSE IF Len(variants) + 1 >= count THEN Append(variants, stripped)
            ELSE VariantLoop(Tail(lines), query, count, Append(variants, stripped))

\* Mutant: a line equal to the base question is compared case-sensitively.
RECURSIVE VariantLoopCaseSensitive(_, _, _, _)
VariantLoopCaseSensitive(lines, query, count, variants) ==
    IF lines = <<>> THEN variants
    ELSE LET stripped == Strip(StripChars(Head(lines), {"-", "*", " "}))
         IN IF stripped = <<>>
            THEN VariantLoopCaseSensitive(Tail(lines), query, count, variants)
            ELSE IF stripped = query
                 THEN VariantLoopCaseSensitive(Tail(lines), query, count, variants)
            ELSE IF Len(variants) + 1 >= count THEN Append(variants, stripped)
            ELSE VariantLoopCaseSensitive(Tail(lines), query, count,
                                          Append(variants, stripped))

ParseVariantsCaseSensitive(content, query, count) ==
    VariantLoopCaseSensitive(SplitLines(ToPlainText(content)), query, count, <<>>)

ParseVariants(content, query, count) ==
    VariantLoop(SplitLines(ToPlainText(content)), query, count, <<>>)

NoneText == [is_none |-> TRUE, text |-> <<>>]

SomeText(t) == [is_none |-> FALSE, text |-> t]

\* Mutant: the enable_query_fusion switch is not consulted.
GenerateVariantQueriesUnconditional(rt, query, reply, last) ==
    IF ~reply.ok
    THEN [raised |-> TRUE, called |-> TRUE, variants |-> <<>>, last |-> last]
    ELSE LET variants == ParseVariants(reply.content, query, rt.fusion_variant_count)
         IN [raised |-> FALSE, called |-> TRUE, variants |-> variants, last |-> variants]

\* Outcome of _generate_variant_queries: raised, the variants returned and
\* the value left in self.last_query_variants.
GenerateVariantQueries(rt, query, reply, last) ==
    IF ~rt.enable_query_fusion
    THEN [raised |-> FALSE, called |-> FALSE, variants |-> <<>>, last |-> <<>>]
    ELSE IF ~reply.ok
    THEN [raised |-> TRUE, called |-> TRUE, variants |-> <<>>, last |-> last]
    ELSE LET variants == ParseVariants(reply.content, query, rt.fusion_variant_count)
         IN [raised |-> FALSE, called |-> TRUE, variants |-> variants, last |-> variants]

\* Mutant: the enable_hyde switch is not consulted.
GenerateHypotheticalDocumentUnconditional(rt, query, reply, last) ==
    IF ~reply.ok
    THEN [raised |-> TRUE, called |-> TRUE, hypo |-> <<>>, last |-> last]
    ELSE LET hypo == Strip(ToPlainText(reply.content))
         IN [raised |-> FALSE, called |-> TRUE, hypo |-> hypo, last |-> SomeText(hypo)]

\* Mutant: the generated text is used as it came, untrimmed.
GenerateHypotheticalDocumentUntrimmed(rt, query, reply, last) ==
    IF ~rt.enable_hyde
    THEN [raised |-> FALSE, called |-> FALSE, hypo |-> <<>>, last |-> NoneText]
    ELSE IF ~reply.ok
    THEN [raised |-> TRUE, called |-> TRUE, hypo |-> <<>>, last |-> last]
    ELSE LET hypo == ToPlainText(reply.content)
         IN [raised |-> FALSE, called |-> TRUE, hypo |-> hypo, last |-> SomeText(hypo)]

GenerateHypotheticalDocument(rt, query, reply, last) ==
    IF ~rt.enable_hyde
    THEN [raised |-> FALSE, called |-> FALSE, hypo |-> <<>>, last |-> NoneText]
    ELSE IF ~reply.ok
    THEN [raised |-> TRUE, called |-> TRUE, hypo |-> <<>>, last |-> last]
    ELSE LET hypo == Strip(ToPlainText(reply.content))
         IN [raised |-> FALSE, called |-> TRUE, hypo |-> hypo, last |-> SomeText(hypo)]


(***************************************************************************)
(* bedrock.invoke_rerank and retriever._apply_rerank.  A result entry of   *)
(* the rerank response is [kind, index, relevanceScore]: kind "int" is an  *)
(* integer index, "none" a missing index, "bad" an index that is no        *)
(* integer (the comparison idx >= len(documents) raises TypeError).        *)
(***************************************************************************)
RerankEntry(kind, index, score) ==
    [kind |-> kind, index |-> index, relevanceScore |-> score]

RerankReply(ok, results) == [ok |-> ok, results |-> results]

WithScore(doc, score) ==
    Document(doc.page_content,
             [doc.metadata EXCEPT !.keys = @ \cup {"rerank_score"},
                                  !.rerank_score = score])

\* The for loop of invoke_rerank; documents[idx] follows Python indexing:
\* a negative idx counts from the end, idx < -len raises IndexError.
\* Mutant: the score is written into the candidate's own metadata map
\* (metadata = doc.metadata, no copy).
RECURSIVE RerankLoopInPlace(_, _, _)
RerankLoopInPlace(results, documents, ranked_docs) ==
    IF results = <<>>
    THEN [raised |-> FALSE, docs |-> ranked_docs, documents |-> documents]
    ELSE LET result == Head(results)
             idx == result.index
             n == Len(documents)
         IN IF result.kind = "none"
            THEN RerankLoopInPlace(Tail(results), documents, ranked_docs)
            ELSE IF result.kind = "bad"
            THEN [raised |-> TRUE, docs |-> <<>>, documents |-> documents]
            ELSE IF idx >= n THEN RerankLoopInPlace(Tail(results), documents, ranked_docs)
            ELSE IF idx < 0 - n
            THEN [raised |-> TRUE, docs |-> <<>>, documents |-> documents]
            ELSE LET pos == (IF idx >= 0 THEN idx ELSE n + idx) + 1
                     scored == WithScore(documents[pos], result.relevanceScore)
                 IN RerankLoopInPlace(Tail(results),
                                      [documents EXCEPT ![pos] = scored],
                                      Append(ranked_docs, scored))

\* Mutant: a result without an index yields an empty document instead of
\* being skipped.
RECURSIVE RerankLoopPlaceholder(_, _, _)
RerankLoopPlaceholder(results, documents, ranked_docs) ==
    IF results = <<>>
    THEN [raised |-> FALSE, docs |-> ranked_docs, documents |-> documents]
    ELSE LET result == Head(results)
             idx == result.index
             n == Len(documents)
         IN IF result.kind = "none"
            THEN RerankLoopPlaceholder(Tail(results), documents,
                     Append(ranked_docs,
                            WithScore(Document(<<>>, Metadata({}, <<>>, 0)),
                                      result.relevanceScore)))
            ELSE IF result.kind = "bad"
            THEN [raised |-> TRUE, docs |-> <<>>, documents |-> documents]
            ELSE IF idx >= n
            THEN RerankLoopPlaceholder(Tail(results), documents, ranked_docs)
            ELSE IF idx < 0 - n
            THEN [raised |-> TRUE, docs |-> <<>>, documents |-> documents]
            ELSE LET doc == documents[(IF idx >= 0 THEN idx ELSE n + idx) + 1]
                 IN RerankLoopPlaceholder(Tail(results), documents,
                        Append(ranked_docs, WithScore(doc, result.relevanceScore)))

\* The loop of invoke_rerank over the response's results: raised, the
\* ranked_docs built, and the documents list as the loop leaves it.
RECURSIVE RerankLoop(_, _, _)
RerankLoop(results, documents, ranked_docs) ==
    IF results = <<>>
    THEN [raised |-> FALSE, docs |-> ranked_docs, documents |-> documents]
    ELSE LET result == Head(results)
             idx == result.index
             n == Len(documents)
         IN IF result.kind = "none" THEN RerankLoop(Tail(results), documents, ranked_docs)
            ELSE IF result.kind = "bad"
            THEN [raised |-> TRUE, docs |-> <<>>, documents |-> documents]
            ELSE IF idx >= n THEN RerankLoop(Tail(results), documents, ranked_docs)
            ELSE IF idx < 0 - n
            THEN [raised |-> TRUE, docs |-> <<>>, documents |-> documents]
            ELSE LET doc == documents[(IF idx >= 0 THEN idx ELSE n + idx) + 1]
                 IN RerankLoop(Tail(results), documents,
                               Append(ranked_docs, WithScore(doc, result.relevanceScore)))

\* The documents sent in the rerank payload: every candidate's content.
PayloadTexts(documents) == [i \in 1..Len(documents) |-> documents[i].page_content]

\* Mutant: the payload asks for top_n results whatever the number of
\* documents sent.
InvokeRerankUncappedTopN(documents, top_n, reply) ==
    IF documents = <<>>
    THEN [raised |-> FALSE, called |-> FALSE, topN |-> 0, texts |-> <<>>,
          docs |-> <<>>, documents |-> documents]
    ELSE IF ~reply.ok
    THEN [raised |-> TRUE, called |-> TRUE, topN |-> top_n,
          texts |-> PayloadTexts(documents), docs |-> <<>>, documents |-> documents]
    ELSE LET out == RerankLoop(reply.results, documents, <<>>)
         IN [raised |-> out.raised, called |-> TRUE, topN |-> top_n,
             texts |-> PayloadTexts(documents), docs |-> out.docs,
             documents |-> out.documents]

InvokeRerank(documents, top_n, reply) ==
    IF documents = <<>>
    THEN [raised |-> FALSE, called |-> FALSE, topN |-> 0, texts |-> <<>>,
          docs |-> <<>>, documents |-> documents]
    ELSE IF ~reply.ok
    THEN [raised |-> TRUE, called |-> TRUE, topN |-> Min(top_n, Len(documents)),
          texts |-> PayloadTexts(documents), docs |-> <<>>, documents |-> documents]
    ELSE LET out == RerankLoop(reply.results, documents, <<>>)
         IN [raised |-> out.raised, called |-> TRUE,
             topN |-> Min(top_n, Len(documents)),
             texts |-> PayloadTexts(documents), docs |-> out.docs,
             documents |-> out.documents]

\* Mutant: without a rerank model the candidate list is returned uncut.
ApplyRerankUncutWithoutModel(rt, docs_in, reply) ==
    IF ~rt.rerank_model_id
    THEN [raised |-> FALSE, called |-> FALSE, topN |-> 0, texts |-> <<>>,
          docs |-> docs_in, candidates |-> docs_in]
    ELSE LET reranked == InvokeRerank(docs_in, rt.final_k, reply)
         IN IF reranked.raised \/ reranked.docs = <<>>
            THEN [raised |-> FALSE, called |-> reranked.called, topN |-> reranked.topN,
                  texts |-> reranked.texts,
                  docs |-> Take(reranked.documents, rt.final_k),
                  candidates |-> reranked.documents]
            ELSE [raised |-> FALSE, called |-> reranked.called, topN |-> reranked.topN,
                  texts |-> reranked.texts, docs |-> reranked.docs,
                  candidates |-> reranked.documents]

\* Mutant: the fallback returns the whole candidate list.
ApplyRerankNoTruncation(rt, docs_in, reply) ==
    IF ~rt.rerank_model_id
    THEN [raised |-> FALSE, called |-> FALSE, topN |-> 0, texts |-> <<>>,
          docs |-> Take(docs_in, rt.final_k), candidates |-> docs_in]
    ELSE LET reranked == InvokeRerank(docs_in, rt.final_k, reply)
         IN IF reranked.raised \/ reranked.docs = <<>>
            THEN [raised |-> FALSE, called |-> reranked.called, topN |-> reranked.topN,
                  texts |-> reranked.texts, docs |-> reranked.documents,
                  candidates |-> reranked.documents]
            ELSE [raised |-> FALSE, called |-> reranked.called, topN |-> reranked.topN,
                  texts |-> reranked.texts, docs |-> reranked.docs,
                  candidates |-> reranked.documents]

\* Outcome of _apply_rerank: the list returned (docs) and the docs argument
\* as the call leaves it (candidates); the fallbacks slice that argument.
ApplyRerank(rt, docs_in, reply) ==
    IF ~rt.rerank_model_id
    THEN [raised |-> FALSE, called |-> FALSE, topN |-> 0, texts |-> <<>>,
          docs |-> Take(docs_in, rt.final_k), candidates |-> docs_in]
    ELSE LET reranked == InvokeRerank(docs_in, rt.final_k, reply)
         IN IF reranked.raised
            THEN [raised |-> FALSE, called |-> reranked.called, topN |-> reranked.topN,
                  texts |-> reranked.texts,
                  docs |-> Take(reranked.documents, rt.final_k),
                  candidates |-> reranked.documents]
            ELSE IF reranked.docs = <<>>
            THEN [raised |-> FALSE, called |-> reranked.called, topN |-> reranked.topN,
                  texts |-> reranked.texts,
                  docs |-> Take(reranked.documents, rt.final_k),
                  candidates |-> reranked.documents]
            ELSE [raised |-> FALSE, called |-> reranked.called, topN |-> reranked.topN,
                  texts |-> reranked.texts, docs |-> reranked.docs,
                  candidates |-> reranked.documents]

(***************************************************************************)
(* RAGPipeline.run: the answer call and the result dict.                   *)
(***************************************************************************)
ResultKeys ==
    {"question", "rewritten_question", "answer", "contexts", "query_variants",
     "hyde_document"}

NoResult ==
    [keys |-> {}, question |-> <<>>, rewritten_question |-> <<>>, answer |-> <<>>,
     contexts |-> <<>>, query_variants |-> <<>>, hyde_document |-> NoneText]

AnswerText(content) ==
    Strip(IF content.kind = "segments" THEN Join(content.segments, <<>>)
          ELSE content.text)

ContextPayload(retrieved_docs) ==
    [i \in 1..Len(retrieved_docs) |->
        [content |-> retrieved_docs[i].page_content,
         metadata |-> retrieved_docs[i].metadata]]

\* Mutant: a failed answer call is swallowed and the answer left out.
BuildResultSwallowing(question, rewritten_question, reply, retrieved_docs, variants, hyde) ==
    [raised |-> FALSE,
     result |-> [keys |-> IF reply.ok THEN ResultKeys ELSE ResultKeys \ {"answer"},
                 question |-> question,
                 rewritten_question |-> rewritten_question,
                 answer |-> IF reply.ok THEN AnswerText(reply.content) ELSE <<>>,
                 contexts |-> ContextPayload(retrieved_docs),
                 query_variants |-> variants,
                 hyde_document |-> hyde]]

\* answer_llm.invoke onwards; variants and hyde are the retriever's
\* last_query_variants and last_hypothetical_document read at that point.
BuildResult(question, rewritten_question, reply, retrieved_docs, variants, hyde) ==
    IF ~reply.ok THEN [raised |-> TRUE, result |-> NoResult]
    ELSE [raised |-> FALSE,
          result |-> [keys |-> ResultKeys,
                      question |-> question,
                      rewritten_question |-> rewritten_question,
                      answer |-> AnswerText(reply.content),
                      contexts |-> ContextPayload(retrieved_docs),
                      query_variants |-> variants,
                      hyde_document |-> hyde]]


(***************************************************************************)
(* Inputs and backend responses the model draws from.                      *)
(***************************************************************************)
Runs == {1, 2}

Questions == {<<"v", "1">>, <<"q">>}

UserTurn == [role |-> <<"u", "s", "e", "r">>, content |-> <<" ", "h", "i">>]

Histories == {NoHistory, HistoryOf(<<>>), HistoryOf(<<UserTurn>>)}

Failure == Reply(FALSE, TextContent(<<>>))

RewriteReplies ==
    {Failure,
     Reply(TRUE, TextContent(<<"<result>", " ", "q", "2", " ", "</result>">>)),
     Reply(TRUE, TextContent(<<" ", "q", "2", "\n">>)),
     Reply(TRUE, TextContent(<<"<result>", " ", "</result>">>))}

FusionReplies ==
    {Failure,
     Reply(TRUE, TextContent(<<"-", " ", "v", "1", "\n", "v", "1", "\n", "v", "2">>)),
     Reply(TRUE, SegmentContent(<<<<"V", "1">>, <<"*", " ", "q", " ">>>>)),
     Reply(TRUE, TextContent(<<>>))}

HydeReplies ==
    {Failure,
     Reply(TRUE, TextContent(<<" ", "h", "\n">>)),
     Reply(TRUE, TextContent(<<" ">>))}

AnswerReplies ==
    {Failure,
     Reply(TRUE, TextContent(<<" ", "a", "b", " ">>)),
     Reply(TRUE, SegmentContent(<<<<" ", "a">>, <<"b", "\n">>>>))}

SearchFailure == [ok |-> FALSE, docs |-> <<>>]

\* similarity_search raises, or returns up to k of the stored rows, each row
\* at most once.
SearchReplies(docs_held, k) ==
    {SearchFailure}
        \cup {[ok |-> TRUE, docs |-> d] :
                 d \in {e \in BoundedSeq(docs_held, k) :
                           \A i, j \in 1..Len(e) : e[i] = e[j] => i = j}}

RerankIndexes == {-3, -1, 0, 1, 2}

RerankEntries ==
    {RerankEntry("none", 0, 7), RerankEntry("bad", 0, 7)}
        \cup {RerankEntry("int", i, 7) : i \in RerankIndexes}

NoRerankReply == RerankReply(TRUE, <<>>)

\* The responses the pipeline specifications draw from; SpecRerank draws
\* from all of RerankReplies.
PipelineRerankEntries ==
    {RerankEntry("none", 0, 7), RerankEntry("int", 0, 7), RerankEntry("int", 1, 7)}

PipelineRerankReplies ==
    {RerankReply(FALSE, <<>>)}
        \cup {RerankReply(TRUE, res) : res \in BoundedSeq(PipelineRerankEntries, MaxResults)}

RerankReplies ==
    {RerankReply(FALSE, <<>>)}
        \cup {RerankReply(TRUE, res) : res \in BoundedSeq(RerankEntries, MaxResults)}

(***************************************************************************)
(* State.                                                                  *)
(*   retriever: the fields AuroraPGVectorRetriever.__init__ sets           *)
(*   requests:  per executor thread, the request query_rag hands to it     *)
(*   store:     documents the vector store holds                           *)
(*   last_query_variants, last_hypothetical_document: retriever fields     *)
(*   runs:      locals of each pipeline.run in flight, with the backend    *)
(*              calls it has made (calls, searches)                        *)
(*   dedup_call: one call of _deduplicate on its own                       *)
(*   rerank_call: one call of _apply_rerank on its own                     *)
(*   variants_call: one call of _generate_variant_queries on its own       *)
(*   rewrite_call: one call of _rewrite_question on its own                *)
(***************************************************************************)
VARIABLES retriever, requests, store, last_query_variants,
          last_hypothetical_document, runs, dedup_call, rerank_call,
          variants_call, rewrite_call

vars == <<retriever, requests, store, last_query_variants,
          last_hypothetical_document, runs, dedup_call, rerank_call,
          variants_call, rewrite_call>>

NoRequest == [present |-> FALSE, question |-> <<>>, history |-> NoHistory]

Request(question, history) ==
    [present |-> TRUE, question |-> question, history |-> history]

NoCalls ==
    [rewrite |-> 0, fusion |-> 0, hyde |-> 0, rerank |-> 0, answer |-> 0,
     base_search |-> 0, variant_search |-> 0, hyde_search |-> 0]

\* One similarity_search call: which of the three places of
\* _retrieve_candidates made it, its query and k, the documents it returned.
SearchCall(kind, query, k, docs) ==
    [kind |-> kind, query |-> query, k |-> k, docs |-> docs]

\* The question each backend call of a run was given (none: not called).
NoAsked ==
    [fusion |-> NoneText, hyde |-> NoneText, rerank |-> NoneText, answer |-> NoneText]

IdleRun ==
    [pc |-> "idle", question |-> <<>>, history |-> NoHistory,
     rewritten_question |-> <<>>, pool |-> <<>>, variants |-> <<>>, vi |-> 1,
     hypothetical |-> <<>>, own_hyde |-> NoneText, candidates |-> <<>>,
     retrieved_docs |-> <<>>,
     result |-> NoResult, errors |-> {}, failed |-> "", calls |-> NoCalls,
     searches |-> <<>>, asked |-> NoAsked]

Retrievers ==
    [primary_k : 1..MaxPrimaryK,
     final_k : {Max(k, 1) : k \in 0..MaxFinalK},
     enable_query_fusion : BOOLEAN,
     enable_hyde : BOOLEAN,
     fusion_variant_count : {Max(k, 1) : k \in 0..MaxVariantCount},
     rerank_model_id : BOOLEAN]

NoDedupCall == [pc |-> "none", docs |-> <<>>, ordered |-> <<>>]

NoRerankCall ==
    [pc |-> "none", docs |-> <<>>, reply |-> NoRerankReply, raised |-> FALSE,
     called |-> FALSE, topN |-> 0, texts |-> <<>>, returned |-> <<>>,
     docs_after |-> <<>>]

NoRewriteCall ==
    [pc |-> "none", question |-> <<"v", "1">>, history |-> HistoryOf(<<UserTurn>>),
     text |-> <<>>, value |-> <<>>]

NoVariantsCall ==
    [pc |-> "none", query |-> <<"v", "1">>, lines |-> <<>>, variants |-> <<>>]

PlainRetriever ==
    [primary_k |-> 1, final_k |-> 1, enable_query_fusion |-> FALSE,
     enable_hyde |-> FALSE, fusion_variant_count |-> 1, rerank_model_id |-> FALSE]

\* Candidate lists _retrieve_candidates can return: no key twice.
CandidateLists ==
    {d \in BoundedSeq(DedupDocs, MaxCandidates) :
        \A i, j \in 1..Len(d) : DedupKey(d[i]) = DedupKey(d[j]) => i = j}

Init ==
    /\ retriever \in Retrievers
    /\ requests \in {[r \in Runs |-> IF r = 1 THEN Request(q, h) ELSE NoRequest] :
                        q \in {<<"v", "1">>}, h \in Histories}
    /\ store = StoreDocs
    /\ last_query_variants = <<>>
    /\ last_hypothetical_document = NoneText
    /\ runs = [r \in Runs |-> IdleRun]
    /\ dedup_call = NoDedupCall
    /\ rerank_call = NoRerankCall
    /\ variants_call = NoVariantsCall
    /\ rewrite_call = NoRewriteCall

\* Two requests without history in flight on the same pipeline.
InitConcurrent ==
    /\ retriever \in {rt \in Retrievers :
                         /\ ~rt.rerank_model_id
                         /\ rt.primary_k = 1
                         /\ rt.final_k = 1}
    /\ requests = [r \in Runs |-> Request(IF r = 1 THEN <<"v", "1">> ELSE <<"q">>,
                                          NoHistory)]
    /\ store = {DocA}
    /\ last_query_variants = <<>>
    /\ last_hypothetical_document = NoneText
    /\ runs = [r \in Runs |-> IdleRun]
    /\ dedup_call = NoDedupCall
    /\ rerank_call = NoRerankCall
    /\ variants_call = NoVariantsCall
    /\ rewrite_call = NoRewriteCall

InitDedup ==
    /\ retriever = PlainRetriever
    /\ requests = [r \in Runs |-> NoRequest]
    /\ store = {}
    /\ last_query_variants = <<>>
    /\ last_hypothetical_document = NoneText
    /\ runs = [r \in Runs |-> IdleRun]
    /\ dedup_call \in {[pc |-> "call", docs |-> d, ordered |-> <<>>] :
                          d \in BoundedSeq(DedupDocs \cup KeyDocs, MaxPool)}
    /\ rerank_call = NoRerankCall
    /\ variants_call = NoVariantsCall
    /\ rewrite_call = NoRewriteCall

InitRerank ==
    /\ retriever \in {rt \in Retrievers :
                         /\ rt.primary_k = 1
                         /\ ~rt.enable_query_fusion
                         /\ ~rt.enable_hyde
                         /\ rt.fusion_variant_count = 1}
    /\ requests = [r \in Runs |-> NoRequest]
    /\ store = {}
    /\ last_query_variants = <<>>
    /\ last_hypothetical_document = NoneText
    /\ runs = [r \in Runs |-> IdleRun]
    /\ dedup_call = NoDedupCall
    /\ rerank_call \in {[NoRerankCall EXCEPT !.pc = "call", !.docs = d, !.reply = reply] :
                           d \in CandidateLists, reply \in RerankReplies}
    /\ variants_call = NoVariantsCall
    /\ rewrite_call = NoRewriteCall

\* One request with history on a retriever with query fusion on and room
\* for one variant more than Init gives.
InitFusion ==
    /\ retriever \in {[rt EXCEPT !.fusion_variant_count = MaxVariantCount + 1] :
                          rt \in {x \in Retrievers :
                                     /\ x.enable_query_fusion
                                     /\ ~x.rerank_model_id
                                     /\ x.final_k = 1
                                     /\ x.fusion_variant_count = 1}}
    /\ requests = [r \in Runs |-> IF r = 1 THEN Request(<<"v", "1">>, HistoryOf(<<UserTurn>>))
                                   ELSE NoRequest]
    /\ store = StoreDocs
    /\ last_query_variants = <<>>
    /\ last_hypothetical_document = NoneText
    /\ runs = [r \in Runs |-> IdleRun]
    /\ dedup_call = NoDedupCall
    /\ rerank_call = NoRerankCall
    /\ variants_call = NoVariantsCall
    /\ rewrite_call = NoRewriteCall

\* The lines an LLM response to the fusion prompt is made of.
VariantLines ==
    {<<"-", " ", "v", "1">>, <<"v", "1">>, <<"v", "2">>, <<" ">>,
     <<"*", " ", "V", "1", " ">>, <<"\t", "-", " ", "v", "1">>, <<"v", "2", "*">>}

InitVariants ==
    /\ retriever \in {[PlainRetriever EXCEPT !.enable_query_fusion = TRUE,
                                              !.fusion_variant_count = count] :
                          count \in 1..MaxLines}
    /\ requests = [r \in Runs |-> NoRequest]
    /\ store = {}
    /\ last_query_variants = <<>>
    /\ last_hypothetical_document = NoneText
    /\ runs = [r \in Runs |-> IdleRun]
    /\ dedup_call = NoDedupCall
    /\ rerank_call = NoRerankCall
    /\ variants_call \in {[NoVariantsCall EXCEPT !.pc = "call", !.lines = lines] :
                             lines \in BoundedSeq(VariantLines, MaxLines)}
    /\ rewrite_call = NoRewriteCall

\* What an LLM response to the rewrite prompt is made of; "<result>" and
\* "</result>" stand for the two tags.
RewriteTokens == {"<result>", "</result>", " ", "q"}

InitRewrite ==
    /\ retriever = PlainRetriever
    /\ requests = [r \in Runs |-> NoRequest]
    /\ store = {}
    /\ last_query_variants = <<>>
    /\ last_hypothetical_document = NoneText
    /\ runs = [r \in Runs |-> IdleRun]
    /\ dedup_call = NoDedupCall
    /\ rerank_call = NoRerankCall
    /\ variants_call = NoVariantsCall
    /\ rewrite_call \in {[NoRewriteCall EXCEPT !.pc = "call", !.text = text] :
                            text \in BoundedSeq(RewriteTokens, MaxTokens)}

\* Mutant: the results of a search are put in front of the pool.
ExtendAtFront(candidates, docs) == docs \o candidates

\* _retrieve_candidates: candidates.extend(<search results>)
Extend(candidates, docs) == candidates \o docs

\* An exception leaves run: errors holds the stages whose backend call
\* failed, failed the stage whose exception reached the caller.
Raise(run, stage) == [run EXCEPT !.pc = "error", !.failed = stage]

Shared == <<last_query_variants, last_hypothetical_document>>

Fixed == <<retriever, store, dedup_call, rerank_call, variants_call, rewrite_call>>


(***************************************************************************)
(* Actions: one per stage of RAGPipeline.run, each the stage's backend     *)
(* call together with the code that follows it up to the next call.        *)
(***************************************************************************)
\* query_rag hands pipeline.run(question, history) to an executor thread.
Start(r) ==
    /\ runs[r].pc = "idle"
    /\ requests[r].present
    /\ runs' = [runs EXCEPT ![r] =
                   [IdleRun EXCEPT !.pc = "rewrite",
                                   !.question = requests[r].question,
                                   !.history = requests[r].history]]
    /\ requests' = [requests EXCEPT ![r] = NoRequest]
    /\ UNCHANGED <<Fixed, Shared>>

\* run: rewritten_question = self._rewrite_question(question, history)
Rewrite(r) ==
    LET run == runs[r] IN
    /\ run.pc = "rewrite"
    /\ \E reply \in IF CallsRewrite(run.history) THEN RewriteReplies ELSE {Failure} :
          LET out == RewriteQuestion(run.question, run.history, reply)
              called == CallsRewrite(run.history)
              next == [run EXCEPT
                         !.rewritten_question = out.value,
                         !.calls.rewrite = @ + (IF called THEN 1 ELSE 0),
                         !.errors = IF called /\ ~reply.ok THEN @ \cup {"rewrite"} ELSE @,
                         !.pc = "base_search"]
          IN runs' = [runs EXCEPT ![r] = IF out.raised THEN Raise(next, "rewrite") ELSE next]
    /\ UNCHANGED <<Fixed, Shared, requests>>

\* Mutant: with query fusion on, the base question itself is not searched.
BaseSearchOnlyWithoutFusion(r) ==
    LET run == runs[r] IN
    /\ run.pc = "base_search"
    /\ \E reply \in SearchReplies(store, retriever.primary_k) :
          LET next == [run EXCEPT !.calls.base_search = @ + 1,
                                  !.searches = Append(@, SearchCall("base",
                                      run.rewritten_question, retriever.primary_k,
                                      reply.docs)),
                                  !.errors = IF reply.ok THEN @ ELSE @ \cup {"base_search"}]
          IN
          runs' = [runs EXCEPT ![r] =
                      IF retriever.enable_query_fusion THEN [run EXCEPT !.pc = "fusion"]
                      ELSE IF ~reply.ok THEN Raise(next, "base_search")
                      ELSE [next EXCEPT !.pool = reply.docs, !.pc = "fusion"]]
    /\ UNCHANGED <<Fixed, Shared, requests>>

\* _retrieve_candidates: the base similarity search.
BaseSearch(r) ==
    LET run == runs[r] IN
    /\ run.pc = "base_search"
    /\ \E reply \in SearchReplies(store, retriever.primary_k) :
          LET next == [run EXCEPT !.calls.base_search = @ + 1,
                                  !.searches = Append(@, SearchCall("base",
                                      run.rewritten_question, retriever.primary_k,
                                      reply.docs)),
                                  !.errors = IF reply.ok THEN @ ELSE @ \cup {"base_search"}]
          IN
          runs' = [runs EXCEPT ![r] =
                      IF ~reply.ok THEN Raise(next, "base_search")
                      ELSE [next EXCEPT !.pool = reply.docs, !.pc = "fusion"]]
    /\ UNCHANGED <<Fixed, Shared, requests>>

\* _retrieve_candidates: self._generate_variant_queries(query)
GenerateVariants(r) ==
    LET run == runs[r] IN
    /\ run.pc = "fusion"
    /\ \E reply \in IF retriever.enable_query_fusion THEN FusionReplies ELSE {Failure} :
          LET out == GenerateVariantQueries(retriever, run.rewritten_question, reply,
                                            last_query_variants)
              next == [run EXCEPT
                         !.calls.fusion = @ + (IF out.called THEN 1 ELSE 0),
                         !.asked.fusion = IF out.called THEN SomeText(run.rewritten_question)
                                          ELSE @,
                         !.errors = IF out.called /\ ~reply.ok THEN @ \cup {"fusion"} ELSE @]
          IN /\ last_query_variants' = out.last
             /\ runs' = [runs EXCEPT ![r] =
                            IF out.raised THEN Raise(next, "fusion")
                            ELSE [next EXCEPT
                                    !.variants = out.variants,
                                    !.vi = 1,
                                    !.pc = IF out.variants # <<>> THEN "variant_search"
                                           ELSE "hyde"]]
    /\ UNCHANGED <<Fixed, requests, last_hypothetical_document>>

\* _retrieve_candidates: one iteration of the loop over the variants.
VariantSearch(r) ==
    LET run == runs[r] IN
    /\ run.pc = "variant_search"
    /\ run.vi <= Len(run.variants)
    /\ \E reply \in SearchReplies(store, retriever.primary_k) :
          LET next == [run EXCEPT !.calls.variant_search = @ + 1,
                                  !.searches = Append(@, SearchCall("variant",
                                      run.variants[run.vi], retriever.primary_k,
                                      reply.docs)),
                                  !.errors = IF reply.ok THEN @ ELSE @ \cup {"variant_search"}]
          IN
          runs' = [runs EXCEPT ![r] =
                      IF ~reply.ok THEN Raise(next, "variant_search")
                      ELSE [next EXCEPT
                              !.pool = Extend(@, reply.docs),
                              !.vi = @ + 1,
                              !.pc = IF run.vi + 1 > Len(run.variants) THEN "hyde"
                                     ELSE "variant_search"]]
    /\ UNCHANGED <<Fixed, Shared, requests>>

\* _retrieve_candidates: self._generate_hypothetical_document(query)
GenerateHyde(r) ==
    LET run == runs[r] IN
    /\ run.pc = "hyde"
    /\ \E reply \in IF retriever.enable_hyde THEN HydeReplies ELSE {Failure} :
          LET out == GenerateHypotheticalDocument(retriever, run.rewritten_question,
                                                  reply, last_hypothetical_document)
              next == [run EXCEPT
                         !.calls.hyde = @ + (IF out.called THEN 1 ELSE 0),
                         !.asked.hyde = IF out.called THEN SomeText(run.rewritten_question)
                                        ELSE @,
                         !.errors = IF out.called /\ ~reply.ok THEN @ \cup {"hyde"} ELSE @]
          IN /\ last_hypothetical_document' = out.last
             /\ runs' = [runs EXCEPT ![r] =
                            IF out.raised THEN Raise(next, "hyde")
                            ELSE [next EXCEPT
                                    !.hypothetical = out.hypo,
                                    !.own_hyde = out.last,
                                    !.pc = IF out.hypo # <<>> THEN "hyde_search"
                                           ELSE "rerank"]]
    /\ UNCHANGED <<Fixed, requests, last_query_variants>>

\* _retrieve_candidates: the similarity search on the hypothetical document.
HydeSearch(r) ==
    LET run == runs[r] IN
    /\ run.pc = "hyde_search"
    /\ \E reply \in SearchReplies(store, retriever.primary_k) :
          LET next == [run EXCEPT !.calls.hyde_search = @ + 1,
                                  !.searches = Append(@, SearchCall("hyde",
                                      run.hypothetical, retriever.primary_k,
                                      reply.docs)),
                                  !.errors = IF reply.ok THEN @ ELSE @ \cup {"hyde_search"}]
          IN
          runs' = [runs EXCEPT ![r] =
                      IF ~reply.ok THEN Raise(next, "hyde_search")
                      ELSE [next EXCEPT !.pool = Extend(@, reply.docs),
                                        !.pc = "rerank"]]
    /\ UNCHANGED <<Fixed, Shared, requests>>

\* Mutant: a failed rerank call is attempted a second time before the
\* fallback.
RerankRetrying(r) ==
    LET run == runs[r]
        candidates == Deduplicate(run.pool)
        asked == retriever.rerank_model_id /\ candidates # <<>>
    IN
    /\ run.pc = "rerank"
    /\ \E reply \in IF asked THEN PipelineRerankReplies ELSE {NoRerankReply} :
          LET out == ApplyRerank(retriever, candidates, reply)
              next == [run EXCEPT
                         !.candidates = candidates,
                         !.calls.rerank = @ + (IF out.called THEN 1 ELSE 0),
                         !.asked.rerank = IF out.called THEN SomeText(run.rewritten_question)
                                          ELSE @,
                         !.errors = IF out.called /\ ~reply.ok THEN @ \cup {"rerank"} ELSE @]
          IN runs' = [runs EXCEPT ![r] =
                         IF out.called /\ ~reply.ok /\ run.calls.rerank = 0 THEN next
                         ELSE [next EXCEPT !.retrieved_docs = out.docs, !.pc = "answer"]]
    /\ UNCHANGED <<Fixed, Shared, requests>>

\* _retrieve_candidates returns self._deduplicate(candidates);
\* _get_relevant_documents passes it to _apply_rerank.
Rerank(r) ==
    LET run == runs[r]
        candidates == Deduplicate(run.pool)
        asked == retriever.rerank_model_id /\ candidates # <<>>
    IN
    /\ run.pc = "rerank"
    /\ \E reply \in IF asked THEN PipelineRerankReplies ELSE {NoRerankReply} :
          LET out == ApplyRerank(retriever, candidates, reply)
              next == [run EXCEPT
                         !.candidates = candidates,
                         !.calls.rerank = @ + (IF out.called THEN 1 ELSE 0),
                         !.asked.rerank = IF out.called THEN SomeText(run.rewritten_question)
                                          ELSE @,
                         !.errors = IF out.called /\ ~reply.ok THEN @ \cup {"rerank"} ELSE @]
          IN runs' = [runs EXCEPT ![r] =
                         IF out.raised THEN Raise(next, "rerank")
                         ELSE [next EXCEPT !.retrieved_docs = out.docs, !.pc = "answer"]]
    /\ UNCHANGED <<Fixed, Shared, requests>>

\* Mutant: the answer prompt is formatted with the original question.
AnswerAskingOriginal(r) ==
    LET run == runs[r] IN
    /\ run.pc = "answer"
    /\ \E reply \in AnswerReplies :
          LET out == BuildResult(run.question, run.rewritten_question, reply,
                                 run.retrieved_docs, last_query_variants,
                                 last_hypothetical_document)
              next == [run EXCEPT
                         !.calls.answer = @ + 1,
                         !.asked.answer = SomeText(run.question),
                         !.errors = IF reply.ok THEN @ ELSE @ \cup {"answer"}]
          IN runs' = [runs EXCEPT ![r] =
                         IF out.raised THEN Raise(next, "answer")
                         ELSE [next EXCEPT !.result = out.result, !.pc = "done"]]
    /\ UNCHANGED <<Fixed, Shared, requests>>

\* run: self.answer_llm.invoke(messages) and the result dict.
Answer(r) ==
    LET run == runs[r] IN
    /\ run.pc = "answer"
    /\ \E reply \in AnswerReplies :
          LET out == BuildResult(run.question, run.rewritten_question, reply,
                                 run.retrieved_docs, last_query_variants,
                                 last_hypothetical_document)
              next == [run EXCEPT
                         !.calls.answer = @ + 1,
                         !.asked.answer = SomeText(run.rewritten_question),
                         !.errors = IF reply.ok THEN @ ELSE @ \cup {"answer"}]
          IN runs' = [runs EXCEPT ![r] =
                         IF out.raised THEN Raise(next, "answer")
                         ELSE [next EXCEPT !.result = out.result, !.pc = "done"]]
    /\ UNCHANGED <<Fixed, Shared, requests>>

\* One call of _deduplicate on an arbitrary candidate list.
DeduplicateCall ==
    /\ dedup_call.pc = "call"
    /\ dedup_call' = [dedup_call EXCEPT !.pc = "returned",
                                        !.ordered = Deduplicate(dedup_call.docs)]
    /\ UNCHANGED <<retriever, requests, store, Shared, runs, rerank_call,
                   variants_call, rewrite_call>>

\* One call of _apply_rerank on an arbitrary deduplicated candidate list.
ApplyRerankCall ==
    /\ rerank_call.pc = "call"
    /\ rerank_call' =
          LET out == ApplyRerank(retriever, rerank_call.docs, rerank_call.reply) IN
          [rerank_call EXCEPT !.pc = "returned", !.raised = out.raised,
                              !.called = out.called, !.topN = out.topN,
                              !.texts = out.texts, !.returned = out.docs,
                              !.docs_after = out.candidates]
    /\ UNCHANGED <<retriever, requests, store, Shared, runs, dedup_call,
                   variants_call, rewrite_call>>

\* One call of _generate_variant_queries on an LLM response made of
\* arbitrary lines.
GenerateVariantQueriesCall ==
    /\ variants_call.pc = "call"
    /\ LET reply == Reply(TRUE, TextContent(Join(variants_call.lines, <<"\n">>)))
           out == GenerateVariantQueries(retriever, variants_call.query, reply,
                                         last_query_variants)
       IN /\ variants_call' = [variants_call EXCEPT !.pc = "returned",
                                                    !.variants = out.variants]
          /\ last_query_variants' = out.last
    /\ UNCHANGED <<retriever, requests, store, last_hypothetical_document, runs,
                   dedup_call, rerank_call, rewrite_call>>

\* One call of _rewrite_question with history, on an arbitrary LLM response.
RewriteQuestionCall ==
    /\ rewrite_call.pc = "call"
    /\ rewrite_call' =
          [rewrite_call EXCEPT
              !.pc = "returned",
              !.value = RewriteQuestion(rewrite_call.question, rewrite_call.history,
                                        Reply(TRUE, TextContent(rewrite_call.text))).value]
    /\ UNCHANGED <<retriever, requests, store, Shared, runs, dedup_call, rerank_call,
                   variants_call>>

Next ==
    \E r \in Runs :
        \/ Start(r)
        \/ Rewrite(r)
        \/ BaseSearch(r)
        \/ GenerateVariants(r)
        \/ VariantSearch(r)
        \/ GenerateHyde(r)
        \/ HydeSearch(r)
        \/ Rerank(r)
        \/ Answer(r)

Spec == Init /\ [][Next]_vars

SpecConcurrent == InitConcurrent /\ [][Next]_vars

SpecDedup == InitDedup /\ [][DeduplicateCall]_vars

SpecRerank == InitRerank /\ [][ApplyRerankCall]_vars

SpecFusion == InitFusion /\ [][Next]_vars

SpecRewrite == InitRewrite /\ [][RewriteQuestionCall]_vars

SpecVariants == InitVariants /\ [][GenerateVariantQueriesCall]_vars


(***************************************************************************)
(* Properties.                                                             *)
(***************************************************************************)
Returned(r) == runs[r].pc = "done"

ContextKey(context) == DedupKey(Document(context.content, context.metadata))

\* C1: in every result run returns, whatever the fusion, HyDE and rerank
\* settings and whatever the rerank backend answers, the number of contexts
\* is at most final_k.
C1_ContextsAtMostFinalK ==
    \A r \in Runs :
        Returned(r) => Len(runs[r].result.contexts) <= retriever.final_k

\* C2: a failed fusion or HyDE generation call never makes run fail: no
\* exception of those two stages reaches the caller.
C2_FusionHydeFailureRecovered ==
    \A r \in Runs : runs[r].failed \notin {"fusion", "hyde"}

\* C3: the query_variants and hyde_document of a returned result are the
\* ones that same run generated, whatever other runs are in flight.
C3_ResultCarriesOwnVariants ==
    \A r \in Runs :
        Returned(r) =>
            /\ runs[r].result.query_variants = runs[r].variants
            /\ runs[r].result.hyde_document = runs[r].own_hyde

\* A result entry the loop of the rerank mapping cannot process (its index
\* is no integer, or lies below -len), and one it passes over (its index is
\* missing or >= len).
EntryRaises(entry, n) ==
    \/ entry.kind = "bad"
    \/ entry.kind = "int" /\ entry.index < 0 - n

EntrySkipped(entry, n) ==
    \/ entry.kind = "none"
    \/ entry.kind = "int" /\ entry.index >= n

\* The rerank call failed, or its result list is empty or malformed: it
\* holds an entry that cannot be processed, or no entry that names a
\* candidate.
RerankUnusable(reply, n) ==
    \/ ~reply.ok
    \/ \E i \in 1..Len(reply.results) : EntryRaises(reply.results[i], n)
    \/ \A i \in 1..Len(reply.results) : EntrySkipped(reply.results[i], n)

\* C4: with a rerank backend configured, when the rerank call raises or
\* yields an empty or malformed result list, _apply_rerank returns the first
\* final_k candidates of the deduplicated list in order, and raises nothing.
C4_RerankFallsBackToTruncation ==
    (/\ rerank_call.pc = "returned"
     /\ retriever.rerank_model_id
     /\ RerankUnusable(rerank_call.reply, Len(rerank_call.docs)))
        => /\ ~rerank_call.raised
           /\ rerank_call.returned = Take(rerank_call.docs, retriever.final_k)

C4_Witness ==
    /\ rerank_call.pc = "returned"
    /\ retriever.rerank_model_id
    /\ rerank_call.reply.ok
    /\ Len(rerank_call.reply.results) = MaxResults
    /\ EntryRaises(rerank_call.reply.results[MaxResults], Len(rerank_call.docs))
    /\ ~EntrySkipped(rerank_call.reply.results[1], Len(rerank_call.docs))
    /\ Len(rerank_call.docs) > retriever.final_k
    /\ rerank_call.returned = Take(rerank_call.docs, retriever.final_k)

\* C5: a failed base similarity search or answer call ends run with an
\* error; a run that returned holds a result with all six fields, and no
\* other run holds any result field.
C5_CompleteResultOrError ==
    \A r \in Runs :
        /\ ("base_search" \in runs[r].errors \/ "answer" \in runs[r].errors)
              => runs[r].pc = "error"
        /\ Returned(r) => runs[r].result.keys = ResultKeys
        /\ ~Returned(r) => runs[r].result.keys = {}

C5_Witness ==
    \E r \in Runs :
        /\ runs[r].pc = "error"
        /\ runs[r].failed = "answer"
        /\ runs[r].retrieved_docs # <<>>
        /\ runs[r].result = NoResult

HistoryEmptyOrAbsent(history) == history.is_none \/ history.turns = <<>>

\* C6: a run whose history is empty or absent uses the question itself as
\* the rewritten question and never calls the rewrite backend.
C6_NoHistoryNoRewrite ==
    \A r \in Runs :
        (runs[r].pc \notin {"idle", "rewrite"} /\ HistoryEmptyOrAbsent(runs[r].history))
            => /\ runs[r].rewritten_question = runs[r].question
               /\ runs[r].calls.rewrite = 0
               /\ Returned(r) => runs[r].result.rewritten_question = runs[r].result.question

C6_Witness ==
    \E r \in Runs :
        /\ Returned(r)
        /\ runs[r].history = HistoryOf(<<>>)
        /\ runs[r].result.rewritten_question = <<"v", "1">>

\* C7: with a non-empty history, a rewrite call that raises leaves the
\* original question as the rewritten question, and no exception of the
\* rewrite stage ever reaches the caller of run.
C7_RewriteFailureKeepsQuestion ==
    \A r \in Runs :
        /\ runs[r].failed # "rewrite"
        /\ "rewrite" \in runs[r].errors
              => /\ ~HistoryEmptyOrAbsent(runs[r].history)
                 /\ runs[r].pc # "rewrite"
                 /\ runs[r].rewritten_question = runs[r].question

C7_Witness ==
    \E r \in Runs :
        /\ Returned(r)
        /\ "rewrite" \in runs[r].errors
        /\ runs[r].calls.rewrite = 1
        /\ runs[r].result.rewritten_question = runs[r].question

\* C8: in every result run returns, with or without a rerank backend and
\* whatever (index, score) pairs the backend returns, no two contexts have
\* the same dedup key.
C8_ContextKeysUnique ==
    \A r \in Runs :
        Returned(r) =>
            \A i, j \in 1..Len(runs[r].result.contexts) :
                ContextKey(runs[r].result.contexts[i])
                    = ContextKey(runs[r].result.contexts[j]) => i = j

\* C9: _deduplicate is idempotent and returns no more candidates than it
\* was given.
C9_DedupIdempotentNonExpanding ==
    dedup_call.pc = "returned"
        => /\ Deduplicate(dedup_call.ordered) = dedup_call.ordered
           /\ Len(dedup_call.ordered) <= Len(dedup_call.docs)

C9_Witness ==
    /\ dedup_call.pc = "returned"
    /\ Len(dedup_call.docs) = MaxPool
    /\ Len(dedup_call.ordered) = 2
    /\ dedup_call.docs[1] = dedup_call.docs[2]

FirstOccurrences(d) ==
    {i \in 1..Len(d) : \A j \in 1..(i - 1) : DedupKey(d[j]) # DedupKey(d[i])}

\* C10: _deduplicate returns, in pool order, exactly the first candidate
\* seen for each key; the pool [A, B, B', C] with B' keyed like B gives
\* [A, B, C].
C10_DedupFirstOccurrenceWins ==
    dedup_call.pc = "returned"
        => LET first == FirstOccurrences(dedup_call.docs) IN
           /\ Len(dedup_call.ordered) = Cardinality(first)
           /\ \A i \in first :
                 dedup_call.ordered[Cardinality({j \in first : j <= i})]
                     = dedup_call.docs[i]
           /\ dedup_call.docs = <<DocA, DocB, DocB2, DocC>>
                 => dedup_call.ordered = <<DocA, DocB, DocC>>

C10_Witness ==
    /\ dedup_call.pc = "returned"
    /\ dedup_call.docs = <<DocA, DocB, DocB2, DocC>>
    /\ dedup_call.ordered = <<DocA, DocB, DocC>>

\* The key the dedup description gives a candidate: source and chunk number
\* when the metadata has both, else the first KeyPrefixLen characters of
\* the content.
DescribedKey(doc) ==
    IF {"source", "chunk_id"} \subseteq doc.metadata.keys
    THEN <<doc.metadata.source, doc.metadata.chunk_id>>
    ELSE <<Take(doc.page_content, KeyPrefixLen), 0>>

DescribedFirstOccurrences(d) ==
    {i \in 1..Len(d) : \A j \in 1..(i - 1) : DescribedKey(d[j]) # DescribedKey(d[i])}

LacksSourceOrChunk(doc) == ~({"source", "chunk_id"} \subseteq doc.metadata.keys)

\* C11: a candidate lacking source or chunk number is keyed by the first
\* 100 characters of its content: two such candidates of one pool are
\* collapsed exactly when those prefixes are equal.
C11_MissingMetadataKeyedByContent ==
    (/\ dedup_call.pc = "returned"
     /\ \A i \in 1..Len(dedup_call.docs) : LacksSourceOrChunk(dedup_call.docs[i]))
        => LET first == DescribedFirstOccurrences(dedup_call.docs) IN
           /\ Len(dedup_call.ordered) = Cardinality(first)
           /\ \A i \in first :
                 dedup_call.ordered[Cardinality({j \in first : j <= i})]
                     = dedup_call.docs[i]

CarriesSourceAndChunk(doc) == {"source", "chunk_id"} \subseteq doc.metadata.keys

\* C19: two candidates that both carry source and chunk number are
\* collapsed exactly when their (source, chunk number) pairs are equal.
C19_IdentityIsSourceChunkPair ==
    (/\ dedup_call.pc = "returned"
     /\ \A i \in 1..Len(dedup_call.docs) : CarriesSourceAndChunk(dedup_call.docs[i]))
        => \A i \in 1..Len(dedup_call.docs) :
              (\E k \in 1..Len(dedup_call.ordered) :
                  dedup_call.ordered[k] = dedup_call.docs[i])
                  \/ (\E j \in 1..(i - 1) :
                         DescribedKey(dedup_call.docs[j]) = DescribedKey(dedup_call.docs[i]))

SearchKinds(r) == {runs[r].searches[i].kind : i \in 1..Len(runs[r].searches)}

\* C12: with enable_query_fusion off no fusion generation call and no
\* variant search is made (only the base search and, if enabled, the HyDE
\* search), and every returned result has query_variants = [].
C12_FusionOffNoVariants ==
    ~retriever.enable_query_fusion
        => \A r \in Runs :
              /\ runs[r].calls.fusion = 0
              /\ runs[r].calls.variant_search = 0
              /\ SearchKinds(r) \subseteq
                    {"base"} \cup (IF retriever.enable_hyde THEN {"hyde"} ELSE {})
              /\ Returned(r) => runs[r].result.query_variants = <<>>

C12_Witness ==
    /\ ~retriever.enable_query_fusion
    /\ Returned(1)
    /\ SearchKinds(1) = {"base", "hyde"}
    /\ runs[1].result.query_variants = <<>>

\* C13: with enable_hyde off no HyDE generation call and no HyDE search is
\* made, and every returned result has no hyde_document.
C13_HydeOffNoDocument ==
    ~retriever.enable_hyde
        => \A r \in Runs :
              /\ runs[r].calls.hyde = 0
              /\ runs[r].calls.hyde_search = 0
              /\ "hyde" \notin SearchKinds(r)
              /\ Returned(r) => runs[r].result.hyde_document = NoneText

C13_Witness ==
    /\ ~retriever.enable_hyde
    /\ Returned(1)
    /\ SearchKinds(1) = {"base", "variant"}
    /\ runs[1].result.hyde_document = NoneText

\* C14: with no rerank backend configured the returned contexts are exactly
\* the first min(final_k, n) candidates of the deduplicated pool, in the
\* pool's order, and no rerank call is made.
C14_NoRerankTruncatesPool ==
    ~retriever.rerank_model_id
        => \A r \in Runs :
              Returned(r)
                 => LET pool == runs[r].pool
                        first == FirstOccurrences(pool)
                        contexts == runs[r].result.contexts
                    IN /\ runs[r].calls.rerank = 0
                       /\ Len(contexts) = Min(retriever.final_k, Cardinality(first))
                       /\ \A i \in first :
                             LET pos == Cardinality({j \in first : j <= i}) IN
                             pos <= retriever.final_k
                                => /\ contexts[pos].content = pool[i].page_content
                                   /\ contexts[pos].metadata = pool[i].metadata

C14_Witness ==
    /\ ~retriever.rerank_model_id
    /\ retriever.final_k = 1
    /\ Returned(1)
    /\ runs[1].pool = <<DocA, DocA, DocB>>
    /\ runs[1].result.contexts = ContextPayload(<<DocA>>)

\* A response line with bullet markers and spaces removed from both ends,
\* then whitespace.
CleanLine(line) == Strip(StripChars(line, {"-", "*", " "}))

RECURSIVE SearchedDocs(_)
SearchedDocs(searches) ==
    IF searches = <<>> THEN <<>>
    ELSE Head(searches).docs \o SearchedDocs(Tail(searches))

SearchesDone(r) == runs[r].pc \in {"rerank", "answer", "done"}

C17_NoStageRetries ==
    \A r \in Runs :
        /\ runs[r].calls.rewrite <= 1
        /\ runs[r].calls.fusion <= 1
        /\ runs[r].calls.hyde <= 1
        /\ runs[r].calls.rerank <= 1
        /\ runs[r].calls.answer <= 1

C17_Witness ==
    /\ Returned(1)
    /\ {"rewrite", "rerank"} \subseteq runs[1].errors
    /\ runs[1].calls.rewrite = 1
    /\ runs[1].calls.rerank = 1
    /\ runs[1].calls.fusion = 1
    /\ runs[1].calls.hyde = 1
    /\ runs[1].calls.answer = 1

\* The rerank backend answered with a list that names at least one
\* candidate and holds no entry the mapping cannot process.
RerankUsable(reply, n) == ~RerankUnusable(reply, n)

\* The candidate at a returned index: counted from the front, a negative
\* index from the end.
CandidateAt(documents, index) ==
    documents[(IF index >= 0 THEN index + 1 ELSE Len(documents) + index + 1)]

\* C18: when the configured rerank backend returns a usable list, it was
\* called with topN = min(final_k, number of candidates) and the contents
\* of all candidates, and _apply_rerank returns, in the order of the list,
\* the candidate at each returned index with the returned relevance score
\* as rerank_score; entries whose index is missing or >= the number of
\* candidates are skipped.
C18_RerankMapsByIndex ==
    (/\ rerank_call.pc = "returned"
     /\ retriever.rerank_model_id
     /\ rerank_call.docs # <<>>
     /\ RerankUsable(rerank_call.reply, Len(rerank_call.docs)))
        => LET documents == rerank_call.docs
               results == rerank_call.reply.results
               n == Len(documents)
               named == {i \in 1..Len(results) : ~EntrySkipped(results[i], n)}
           IN /\ rerank_call.called
              /\ rerank_call.topN = Min(retriever.final_k, n)
              /\ Len(rerank_call.texts) = n
              /\ \A i \in 1..n : rerank_call.texts[i] = documents[i].page_content
              /\ Len(rerank_call.returned) = Cardinality(named)
              /\ \A i \in named :
                    LET got == rerank_call.returned[Cardinality({j \in named : j <= i})]
                        candidate == CandidateAt(documents, results[i].index)
                    IN /\ got.page_content = candidate.page_content
                       /\ got.metadata.source = candidate.metadata.source
                       /\ got.metadata.chunk_id = candidate.metadata.chunk_id
                       /\ got.metadata.keys = candidate.metadata.keys \cup {"rerank_score"}
                       /\ got.metadata.rerank_score = results[i].relevanceScore

C18_Witness ==
    /\ rerank_call.pc = "returned"
    /\ retriever.rerank_model_id
    /\ retriever.final_k = 1
    /\ rerank_call.docs = <<DocA, DocB>>
    /\ rerank_call.reply.results = <<RerankEntry("int", 2, 7), RerankEntry("int", 1, 7)>>
    /\ rerank_call.topN = 1
    /\ rerank_call.returned = <<WithScore(DocB, 7)>>

\* The run is past the point where _retrieve_candidates decides on the HyDE
\* search and makes it.
PastHydeSearch(r) ==
    \/ runs[r].pc \in {"rerank", "answer", "done"}
    \/ runs[r].pc = "error" /\ runs[r].failed \in {"hyde_search", "answer"}

HydeSearches(r) ==
    {i \in 1..Len(runs[r].searches) : runs[r].searches[i].kind = "hyde"}

\* C20: with enable_hyde on and a hypothetical document generated, the
\* document is trimmed, and the HyDE search is made exactly once, with that
\* document as query and k = primary_k, if the document is non-empty and
\* not at all if it is empty; with an empty document nothing fails before
\* the answer call.
C20_HydeSearchIffNonEmpty ==
    \A r \in Runs :
        (retriever.enable_hyde /\ PastHydeSearch(r))
            => LET run == runs[r]
                   hypo == run.hypothetical
               IN /\ run.calls.hyde = 1
                  /\ Strip(hypo) = hypo
                  /\ run.own_hyde = SomeText(hypo)
                  /\ Cardinality(HydeSearches(r)) = (IF hypo # <<>> THEN 1 ELSE 0)
                  /\ run.calls.hyde_search = Cardinality(HydeSearches(r))
                  /\ \A i \in HydeSearches(r) :
                        /\ run.searches[i].query = hypo
                        /\ run.searches[i].k = retriever.primary_k
                  /\ hypo = <<>> => run.failed \in {"", "answer"}

C20_Witness ==
    /\ retriever.enable_hyde
    /\ Returned(1)
    /\ runs[1].calls.hyde = 1
    /\ runs[1].hypothetical = <<>>
    /\ HydeSearches(1) = {}
    /\ runs[1].result.hyde_document = SomeText(<<>>)

\* The tag pair the extraction uses: the first opening tag that has a
\* closing tag after it, and the first closing tag after that.
ResultPairs(text) ==
    {p \in (1..Len(text)) \X (1..Len(text)) :
        /\ p[1] < p[2]
        /\ text[p[1]] = "<result>"
        /\ text[p[2]] = "</result>"
        /\ \A j \in (p[1] + 1)..(p[2] - 1) : text[j] # "</result>"
        /\ \A i \in 1..(p[1] - 1) :
              text[i] = "<result>" => \A j \in (i + 1)..Len(text) : text[j] # "</result>"}

\* C21: with history and a successful rewrite call, the rewritten question
\* is the trimmed text between the result tags if the response has them,
\* else the whole trimmed response; if that text is empty it is the
\* original question, so it is never empty.
C21_RewriteExtraction ==
    rewrite_call.pc = "returned"
        => LET text == rewrite_call.text
               pairs == ResultPairs(text)
               extracted == IF pairs = {} THEN Strip(text)
                            ELSE LET p == CHOOSE q \in pairs : TRUE
                                 IN Strip(SubSeq(text, p[1] + 1, p[2] - 1))
           IN /\ Cardinality(pairs) <= 1
              /\ rewrite_call.value = (IF extracted # <<>> THEN extracted
                                       ELSE rewrite_call.question)
              /\ rewrite_call.value # <<>>

C21_Witness ==
    /\ rewrite_call.pc = "returned"
    /\ rewrite_call.text = <<"q", "<result>", " ", "</result>">>
    /\ rewrite_call.value = rewrite_call.question

\* The stage of run a position belongs to: 1 Rewrite, 2 Generate
\* Candidates, 3 Deduplicate and Rerank, 4 Synthesize.
StageOf(pc) ==
    CASE pc = "idle" -> 0
      [] pc = "rewrite" -> 1
      [] pc \in {"base_search", "fusion", "variant_search", "hyde", "hyde_search"} -> 2
      [] pc = "rerank" -> 3
      [] pc = "answer" -> 4
      [] OTHER -> 5

StagesInOrderState ==
    \A r \in Runs :
        LET run == runs[r] IN
        /\ StageOf(run.pc) <= 1
              => /\ run.searches = <<>>
                 /\ run.calls.fusion + run.calls.hyde + run.calls.rerank
                       + run.calls.answer = 0
        /\ (StageOf(run.pc) >= 2 /\ run.pc # "base_search")
              => /\ run.calls.base_search = 1
                 /\ run.searches[1].kind = "base"
        /\ StageOf(run.pc) <= 3 => run.calls.rerank = 0 /\ run.calls.answer = 0
        /\ run.pc = "answer" => run.calls.answer = 0
        /\ run.calls.rewrite <= 1
        /\ run.calls.base_search <= 1
        /\ run.calls.rerank <= 1
        /\ run.calls.answer <= 1

StagesInOrderStep ==
    \A r \in Runs :
        LET a == runs[r]
            b == runs'[r]
        IN /\ StageOf(b.pc) >= StageOf(a.pc)
           /\ b.searches # a.searches
                 => /\ StageOf(a.pc) = 2
                    /\ b.calls.rerank = 0
                    /\ b.calls.answer = 0
           /\ b.calls.rerank # a.calls.rerank
                 => /\ a.pc = "rerank"
                    /\ b.searches = a.searches
                    /\ b.calls.answer = 0
           /\ b.calls.answer # a.calls.answer
                 => /\ a.pc = "answer"
                    /\ b.searches = a.searches
                    /\ b.calls.rerank = a.calls.rerank

\* C22: a run goes through Rewrite, Generate Candidates, Deduplicate and
\* Rerank, Synthesize in that order and never back: no search before the
\* rewrite stage has returned, the base search always made, the rerank call
\* only after the last search, the answer call only after the rerank stage.
C22_StagesInOrder == []StagesInOrderState /\ [][StagesInOrderStep]_vars

C22_Witness ==
    /\ Returned(1)
    /\ runs[1].calls.rewrite = 1
    /\ Len(runs[1].searches) = 3
    /\ runs[1].calls.rerank = 1
    /\ runs[1].calls.answer = 1

\* C23: _apply_rerank leaves the candidates it was given as they were, and
\* when no rerank model is configured or the stage falls back, no returned
\* document has a rerank_score.
C23_RerankLeavesCandidates ==
    rerank_call.pc = "returned"
        => /\ rerank_call.docs_after = rerank_call.docs
           /\ \A i \in 1..Len(rerank_call.docs_after) :
                 "rerank_score" \notin rerank_call.docs_after[i].metadata.keys
           /\ (\/ ~retriever.rerank_model_id
               \/ RerankUnusable(rerank_call.reply, Len(rerank_call.docs)))
                 => \A i \in 1..Len(rerank_call.returned) :
                       /\ "rerank_score" \notin rerank_call.returned[i].metadata.keys
                       /\ rerank_call.returned[i] = rerank_call.docs[i]

C23_Witness ==
    /\ rerank_call.pc = "returned"
    /\ retriever.rerank_model_id
    /\ rerank_call.docs = <<DocA, DocB>>
    /\ rerank_call.reply.results = <<RerankEntry("int", 0, 7), RerankEntry("bad", 0, 7)>>
    /\ rerank_call.returned = Take(<<DocA, DocB>>, retriever.final_k)
    /\ rerank_call.docs_after = <<DocA, DocB>>

\* got is candidate or a copy of it with a rerank_score added.
SameCandidate(got, candidate) ==
    /\ got.page_content = candidate.page_content
    /\ got.metadata.source = candidate.metadata.source
    /\ got.metadata.chunk_id = candidate.metadata.chunk_id
    /\ got.metadata.keys \ {"rerank_score"} = candidate.metadata.keys

\* C24: whatever the rerank backend answers (indexes out of range, missing,
\* negative, not integers, or a failure), every document _apply_rerank
\* returns is one of the candidates it was given, with at most a
\* rerank_score added.
C24_ContextsComeFromCandidates ==
    rerank_call.pc = "returned"
        => /\ ~rerank_call.raised
           /\ \A i \in 1..Len(rerank_call.returned) :
                 \E j \in 1..Len(rerank_call.docs) :
                    SameCandidate(rerank_call.returned[i], rerank_call.docs[j])

C24_Witness ==
    /\ rerank_call.pc = "returned"
    /\ retriever.rerank_model_id
    /\ rerank_call.docs = <<DocA, DocB>>
    /\ rerank_call.reply.results = <<RerankEntry("int", -1, 7), RerankEntry("int", 2, 7)>>
    /\ rerank_call.returned = <<WithScore(DocB, 7)>>

\* C25: a returned result has the question the run was given, and its
\* rewritten_question is the string that was the base search query and the
\* question given to the fusion, HyDE, rerank and answer calls.
C25_OneRewrittenQuestion ==
    \A r \in Runs :
        Returned(r)
           => LET run == runs[r]
                  rewritten == run.result.rewritten_question
              IN /\ run.result.question = run.question
                 /\ run.searches[1].kind = "base"
                 /\ run.searches[1].query = rewritten
                 /\ \A stage \in {"fusion", "hyde", "rerank", "answer"} :
                       run.calls[stage] = 1 <=> run.asked[stage] = SomeText(rewritten)
                 /\ \A stage \in {"fusion", "hyde", "rerank", "answer"} :
                       run.calls[stage] = 0 <=> run.asked[stage] = NoneText
                 /\ run.calls.answer = 1

C25_Witness ==
    /\ Returned(1)
    /\ runs[1].result.question = <<"v", "1">>
    /\ runs[1].result.rewritten_question = <<"q", "2">>
    /\ runs[1].calls.fusion = 1
    /\ runs[1].calls.hyde = 1
    /\ runs[1].calls.rerank = 1
    /\ runs[1].searches[1].query = <<"q", "2">>

====
